---- MODULE Spec2Model ----
(***************************************************************************)
(* Model of CaptureEngine (Plugin.CaptureEngine.cpp): the preview          *)
(* start/stop state machine, Shutdown's drain, the payload handler binding *)
(* and the stream-payload callback.                                        *)
(*                                                                         *)
(* Threads: one caller thread (StartPreview, StopPreview, Shutdown and the *)
(* property setters, all under the critical section m_cs), the background  *)
(* thread of the start coroutine, the background thread of the stop        *)
(* coroutine, and the capture thread that delivers stream payloads.  The   *)
(* stop coroutine and the stream-payload lambda take no lock in the code,  *)
(* so their steps interleave freely with everything else.                  *)
(* The host wrapper's StopPreview loop (the managed CameraCapture class)    *)
(* runs on the caller thread and makes the engine's StopPreview call.      *)
(***************************************************************************)
EXTENDS Naturals, Sequences, FiniteSets, TLC

\* Calls the caller makes in one run (StartPreview, StopPreview, Shutdown and the
\* two setters).
MaxCalls == 3

\* Stream payloads the capture thread delivers in one run.
MaxDeliveries == 2

\* Widths and heights a video payload reports.
Dims == {1, 2}

Handlers == {"h1", "h2"}

NoHandler == "none"

NoToken == <<>>

NoTexture == <<>>

EventKinds == {"profile", "description", "metadata", "sample", "payload"}

NoNote == [kind |-> "none", width |-> 0, height |-> 0, transform |-> FALSE]

VARIABLES
    m_isShutdown,          \* line 45, set at line 83
    startEvent,            \* m_startPreviewEventHandle is signalled
    stopEvent,             \* m_stopPreviewEventHandle is signalled
    m_mediaDevice,         \* present?
    m_dxgiDeviceManager,   \* present?
    m_startPreviewOp,      \* handle present?
    m_stopPreviewOp,       \* handle present?
    m_mediaCapture,        \* session present?
    m_initSettings,        \* present?
    m_mrcAudioEffect,      \* present?
    m_mrcVideoEffect,      \* present?
    m_mrcPreviewEffect,    \* present?
    m_mediaSink,           \* present?
    m_payloadHandler,      \* a handler or NoHandler
    m_audioSample,         \* present?
    m_sharedVideoTexture,  \* NoTexture or <<width, height>>
    m_appCoordinateSystem, \* present?
    tokens,                \* the event tokens the engine keeps
    subs,                  \* <<handler, event>> pairs the engine's lambdas are registered on
    sinkHandler,           \* the handler the live sink pushes payloads to
    streaming,             \* the session reports CameraStreamState::Streaming
    cs,                    \* owner of m_cs
    moduleShutdown,        \* Module::Shutdown has run
    callerPc,              \* where the caller thread is inside Shutdown
    shutSawSession,        \* a session was open when Shutdown was called
    startPc,               \* position of the start coroutine and its Completed handler
    startArgs,             \* enableAudio, enableMrc of the start in flight
    startStatus,           \* AsyncStatus of the start action
    startSets,             \* SetEvent calls on the start event since the launch
    stopPc,
    stopStatus,
    stopSets,
    payPc,                 \* position of the stream-payload lambda
    payload,               \* the payload being delivered
    out,                   \* what the last step returned, raised and delivered
    crashed,               \* the process died on a null dereference
    hostPc,                \* the host wrapper's StopPreview: "idle", "await" (stop accepted,
                           \* stopCompletionSource pending) or "retry" (about to re-issue)
    calls,                 \* calls made by the caller so far
    deliveries,            \* stream payloads delivered so far
    openSessions,          \* capture sessions initialised and not yet closed
    audioAllocs,           \* audio sample buffers created so far (line 414)
    lastAlloc,             \* size of the texture created last (line 452), <<>> if none
    mrcFailed,             \* an effect attach threw in the start sequence in flight
    sinceReset             \* "set": the caller set the payload handler last; "reset": a stop
                           \* sequence cleared it since; "ended": and a stop sequence has ended

dev == <<m_mediaDevice, m_dxgiDeviceManager>>

bufs == <<m_audioSample, m_sharedVideoTexture>>

session == <<m_mediaCapture, m_initSettings, streaming>>

effects == <<m_mrcAudioEffect, m_mrcVideoEffect, m_mrcPreviewEffect>>

sink == <<m_mediaSink, sinkHandler>>

binding == <<m_payloadHandler, tokens, subs>>

startOp == <<m_startPreviewOp, startEvent, startPc, startArgs, startStatus, startSets>>

stopOp == <<m_stopPreviewOp, stopEvent, stopPc, stopStatus, stopSets>>

pay == <<payPc, payload>>

\* What has happened so far; the code keeps none of it.
hist == <<openSessions, audioAllocs, lastAlloc, mrcFailed, sinceReset>>

shut == <<m_isShutdown, moduleShutdown, callerPc, shutSawSession>>

vars == <<dev, bufs, session, effects, sink, binding, startOp, stopOp, pay,
          shut, cs, out, m_appCoordinateSystem, crashed, hostPc, calls, deliveries, hist>>

NoPayload == [sender |-> NoHandler, kind |-> "none", width |-> 0, height |-> 0, changed |-> FALSE]

\* The output of one step: the hresult a call returned, the notifications the
\* step raised (calls of Callback / Failed), those that reached the caller,
\* how a payload delivery ended, and the call made when it returns no hresult.
NoOut == [hr |-> "none", raised |-> <<>>, delivered |-> <<>>, pay |-> "none",
          call |-> "none"]

NoTokens == [profile |-> NoToken, description |-> NoToken, metadata |-> NoToken,
             sample |-> NoToken, payload |-> NoToken]

NoArgs == [enableAudio |-> FALSE, enableMrc |-> FALSE]

\* The constructor, lines 44-68, after a successful Create.
Init ==
    /\ m_isShutdown = FALSE
    /\ startEvent = TRUE
    /\ stopEvent = TRUE
    /\ m_mediaDevice = FALSE
    /\ m_dxgiDeviceManager = FALSE
    /\ m_startPreviewOp = FALSE
    /\ m_stopPreviewOp = FALSE
    /\ m_mediaCapture = FALSE
    /\ m_initSettings = FALSE
    /\ m_mrcAudioEffect = FALSE
    /\ m_mrcVideoEffect = FALSE
    /\ m_mrcPreviewEffect = FALSE
    /\ m_mediaSink = FALSE
    /\ m_payloadHandler = NoHandler
    /\ m_audioSample = FALSE
    /\ m_sharedVideoTexture = NoTexture
    /\ m_appCoordinateSystem = FALSE
    /\ tokens = NoTokens
    /\ subs = {}
    /\ sinkHandler = NoHandler
    /\ streaming = FALSE
    /\ cs = "free"
    /\ moduleShutdown = FALSE
    /\ callerPc = "idle"
    /\ shutSawSession = FALSE
    /\ out = NoOut
    /\ startPc = "idle"
    /\ startArgs = NoArgs
    /\ startStatus = "none"
    /\ startSets = 0
    /\ stopPc = "idle"
    /\ stopStatus = "none"
    /\ stopSets = 0
    /\ payPc = "idle"
    /\ payload = NoPayload
    /\ crashed = FALSE
    /\ hostPc = "idle"
    /\ calls = 0
    /\ deliveries = 0
    /\ openSessions = 0
    /\ audioAllocs = 0
    /\ lastAlloc = <<>>
    /\ mrcFailed = FALSE
    /\ sinceReset = "set"

\* The caller thread is outside every engine call and the lock can be taken.
CallerFree == ~crashed /\ callerPc = "idle" /\ cs = "free" /\ calls < MaxCalls

\* Shutdown has returned to the caller.
ShutdownReturned == m_isShutdown /\ callerPc = "idle"

----------------------------------------------------------------------------
\* Module (base class, its source is not part of the engine file).

\* Module::Shutdown: marks the engine permanently shut down; the module lets go
\* of the observer and of the Unity device.
ModuleShutdown == moduleShutdown' = TRUE

\* m_d3d11DeviceResources.lock() yields a device.
UnityDeviceAlive == ~moduleShutdown

\* Module::Callback: hands a notification to the registered observer unless the
\* engine has been marked shut down.
Callback(note) ==
    [NoOut EXCEPT !.raised = <<note>>,
                  !.delivered = IF moduleShutdown THEN <<>> ELSE <<note>>]

CaptureNote(kind) == [NoNote EXCEPT !.kind = kind]

\* Module::Failed: the failure notification.
Failed == Callback(CaptureNote("Failed"))

\* The host wrapper's OnCallback and OnFailed (wrapper lines 125-153), reached
\* from the observer in the step that delivers the notification.  While
\* StopPreviewAsync awaits stopCompletionSource (line 271), preview-stopped
\* completes it (line 136): hr stays 0, StopPreviewAsync returns true and
\* StopPreview ends; a failure cancels it (line 152): the await throws, hr is
\* the exception's HResult (line 277) and StopPreviewAsync returns false.
\* With no completion source pending both are no-ops.
HostNotified(o) ==
    IF hostPc # "await"
    THEN hostPc
    ELSE IF \E i \in DOMAIN o.delivered : o.delivered[i].kind = "PreviewStopped"
         THEN "idle"
         ELSE IF \E i \in DOMAIN o.delivered : o.delivered[i].kind = "Failed"
              THEN "retry"
              ELSE hostPc

----------------------------------------------------------------------------
\* Device resources.

\* CreateDeviceResources with the media device stored as soon as it is created
\* (line 217), before the device manager calls can fail.
CreateDeviceResources_PartialStore(ok) ==
    IF m_mediaDevice /\ m_dxgiDeviceManager
    THEN [hr |-> "S_OK", device |-> m_mediaDevice, manager |-> m_dxgiDeviceManager]
    ELSE IF UnityDeviceAlive
         THEN IF ok
              THEN [hr |-> "S_OK", device |-> TRUE, manager |-> TRUE]
              ELSE [hr |-> "E_FAIL", device |-> TRUE, manager |-> m_dxgiDeviceManager]
         ELSE [hr |-> "E_FAIL", device |-> m_mediaDevice, manager |-> m_dxgiDeviceManager]

\* CreateDeviceResources, lines 199-233.  ok: every device call succeeds.  Both
\* members are stored only on success.
CreateDeviceResources(ok) ==
    IF m_mediaDevice /\ m_dxgiDeviceManager
    THEN [hr |-> "S_OK", device |-> m_mediaDevice, manager |-> m_dxgiDeviceManager]
    ELSE IF UnityDeviceAlive /\ ok
         THEN [hr |-> "S_OK", device |-> TRUE, manager |-> TRUE]
         ELSE [hr |-> "E_FAIL", device |-> m_mediaDevice, manager |-> m_dxgiDeviceManager]

\* ReleaseDeviceResources, lines 235-258.
ReleaseDeviceResources ==
    /\ m_audioSample' = FALSE
    /\ m_sharedVideoTexture' = NoTexture
    /\ m_dxgiDeviceManager' = FALSE
    /\ m_mediaDevice' = FALSE

----------------------------------------------------------------------------
\* StartPreview / StopPreview, the synchronous part.

\* Busy with the test of the start handle dropped.
Busy_StopOnly == m_stopPreviewOp

\* The guard of lines 116 and 160.
Busy == m_startPreviewOp \/ m_stopPreviewOp

\* StartPreview, lines 112-154, run holding m_cs.  The width and
\* height only reach the capture session's stream negotiation and are left out.
DoStartPreview(enableAudio, enableMrc, ok) ==
    IF Busy
    THEN /\ out' = [NoOut EXCEPT !.hr = "E_ABORT"]
         /\ UNCHANGED <<startOp, dev>>
    ELSE LET r == CreateDeviceResources(ok) IN
         /\ startEvent' = FALSE
         /\ m_mediaDevice' = r.device
         /\ m_dxgiDeviceManager' = r.manager
         /\ out' = [NoOut EXCEPT !.hr = r.hr]
         /\ IF r.hr = "S_OK"
            THEN /\ m_startPreviewOp' = TRUE
                 /\ startPc' = "bg"
                 /\ startArgs' = [enableAudio |-> enableAudio, enableMrc |-> enableMrc]
                 /\ startStatus' = "Started"
                 /\ startSets' = 0
            ELSE UNCHANGED <<m_startPreviewOp, startPc, startArgs, startStatus, startSets>>

\* StopPreview with ResetEvent moved above the busy test.
DoStopPreview_ResetFirst ==
    /\ stopEvent' = FALSE
    /\ IF Busy
       THEN /\ out' = [NoOut EXCEPT !.hr = "E_ABORT"]
            /\ UNCHANGED <<m_stopPreviewOp, stopPc, stopStatus, stopSets>>
       ELSE /\ m_stopPreviewOp' = TRUE
            /\ stopPc' = "bg"
            /\ stopStatus' = "Started"
            /\ stopSets' = 0
            /\ out' = [NoOut EXCEPT !.hr = "S_OK"]

\* StopPreview, lines 156-196, run holding m_cs.
DoStopPreview ==
    IF Busy
    THEN /\ out' = [NoOut EXCEPT !.hr = "E_ABORT"]
         /\ UNCHANGED stopOp
    ELSE /\ stopEvent' = FALSE
         /\ m_stopPreviewOp' = TRUE
         /\ stopPc' = "bg"
         /\ stopStatus' = "Started"
         /\ stopSets' = 0
         /\ out' = [NoOut EXCEPT !.hr = "S_OK"]

\* The caller calls StartPreview.
StartPreview(enableAudio, enableMrc, ok) ==
    /\ CallerFree
    /\ calls' = calls + 1
    /\ UNCHANGED <<hostPc, deliveries, hist>>
    /\ DoStartPreview(enableAudio, enableMrc, ok)
    /\ UNCHANGED <<bufs, session, effects, sink, binding, stopOp, pay, shut, cs,
                   m_appCoordinateSystem, crashed>>

\* The caller calls StopPreview.
StopPreview ==
    /\ CallerFree
    /\ calls' = calls + 1
    /\ UNCHANGED <<hostPc, deliveries, hist>>
    /\ DoStopPreview
    /\ UNCHANGED <<dev, bufs, session, effects, sink, binding, startOp, pay, shut, cs,
                   m_appCoordinateSystem, crashed>>

----------------------------------------------------------------------------
\* Mixed-reality effects.

EffectState(audio, preview, video, ok) ==
    [audio |-> audio, preview |-> preview, video |-> video, ok |-> ok]

\* RemoveMrcEffectsAsync, lines 853-884: audio, then preview, then video.  failAt
\* names the effect whose RemoveEffectAsync throws ("none": no removal throws); the
\* exception leaves the coroutine, so the later removals are not reached.
RemoveMrcEffects(failAt) ==
    LET a == m_mrcAudioEffect
        p == m_mrcPreviewEffect
        v == m_mrcVideoEffect
    IN IF ~m_mediaCapture
       THEN EffectState(a, p, v, TRUE)
       ELSE IF a /\ failAt = "audio"
            THEN EffectState(a, p, v, FALSE)
            ELSE IF p /\ failAt = "preview"
                 THEN EffectState(FALSE, p, v, FALSE)
                 ELSE IF v /\ failAt = "video"
                      THEN EffectState(FALSE, FALSE, v, FALSE)
                      ELSE EffectState(FALSE, FALSE, FALSE, TRUE)

\* AddMrcEffectsAsync, lines 813-851: video on the record stream, then (unless the
\* device's preview and record streams are identical) on the preview stream, then
\* audio when enabled.  The first add that throws ends the sequence; the catch
\* block swallows the error, so the result is always ok.
AddMrcEffects(enableAudio, identical, failAt) ==
    LET a == m_mrcAudioEffect
        p == m_mrcPreviewEffect
        v == m_mrcVideoEffect
    IN IF ~m_mediaCapture
       THEN EffectState(a, p, v, TRUE)
       ELSE IF failAt = "video"
            THEN EffectState(a, p, v, TRUE)
            ELSE IF ~identical /\ failAt = "preview"
                 THEN EffectState(a, p, TRUE, TRUE)
                 ELSE LET p2 == IF identical THEN p ELSE TRUE
                      IN IF enableAudio /\ failAt # "audio"
                         THEN EffectState(TRUE, p2, TRUE, TRUE)
                         ELSE EffectState(a, p2, TRUE, TRUE)

FailPoints == {"none", "audio", "preview", "video"}

\* One of the Add...EffectAsync calls that AddMrcEffectsAsync reaches (lines 830,
\* 834, 835, 842) throws.
AddThrows(enableAudio, identical, failAt) ==
    /\ m_mediaCapture
    /\ \/ failAt = "video"
       \/ ~identical /\ failAt = "preview"
       \/ enableAudio /\ failAt = "audio"

----------------------------------------------------------------------------
\* StartPreviewCoroutine, lines 514-629, on its background thread.

\* An exception leaves the coroutine: the action ends with AsyncStatus::Error
\* and nothing after the throwing statement runs.
StartThrow ==
    /\ startStatus' = "Error"
    /\ startPc' = "ended"

\* Line 523: the coroutine takes m_cs.
StartEnter ==
    /\ ~crashed
    /\ UNCHANGED <<hostPc, calls, deliveries, hist>>
    /\ startPc = "bg"
    /\ cs = "free"
    /\ out' = NoOut
    /\ cs' = "start"
    /\ startPc' = "locked"
    /\ UNCHANGED <<dev, bufs, session, effects, sink, binding, stopOp, pay, shut,
                   m_appCoordinateSystem, crashed, m_startPreviewOp, startEvent,
                   startArgs, startStatus, startSets>>

\* The session step with the tests of lines 525 and 677 dropped: a session is
\* initialised whether or not one is open.
StartSession_AlwaysCreate(ok, failAt) ==
    /\ ~crashed
    /\ UNCHANGED <<hostPc, calls, deliveries, audioAllocs, lastAlloc, mrcFailed, sinceReset>>
    /\ startPc = "locked"
    /\ out' = NoOut
    /\ cs' = "free"
    /\ UNCHANGED effects
    /\ IF ok
       THEN /\ m_mediaCapture' = TRUE
            /\ m_initSettings' = TRUE
            /\ openSessions' = openSessions + 1
            /\ startPc' = "configure"
            /\ UNCHANGED <<streaming, startStatus>>
       ELSE /\ StartThrow
            /\ UNCHANGED <<session, openSessions>>
    /\ UNCHANGED <<dev, bufs, sink, binding, stopOp, pay, shut, m_appCoordinateSystem, crashed, m_startPreviewOp, startEvent, startArgs, startSets>>

\* Lines 525-533, under m_cs: create the session (CreateMediaCaptureAsync, lines
\* 672-789) or reuse it after removing its effects.  The guard releases m_cs at
\* the end of the block, also when the block is left by an exception.
StartSession(ok, failAt) ==
    /\ ~crashed
    /\ UNCHANGED <<hostPc, calls, deliveries, audioAllocs, lastAlloc, mrcFailed, sinceReset>>
    /\ startPc = "locked"
    /\ out' = NoOut
    /\ cs' = "free"
    /\ IF ~m_mediaCapture
       THEN /\ UNCHANGED effects
            /\ IF ok
               THEN /\ m_mediaCapture' = TRUE
                    /\ m_initSettings' = TRUE
                    /\ openSessions' = openSessions + 1
                    /\ startPc' = "configure"
                    /\ UNCHANGED <<streaming, startStatus>>
               ELSE /\ StartThrow
                    /\ UNCHANGED <<session, openSessions>>
       ELSE LET r == RemoveMrcEffects(failAt) IN
            /\ m_mrcAudioEffect' = r.audio
            /\ m_mrcPreviewEffect' = r.preview
            /\ m_mrcVideoEffect' = r.video
            /\ UNCHANGED <<session, openSessions>>
            /\ IF r.ok
               THEN startPc' = "configure" /\ UNCHANGED startStatus
               ELSE StartThrow
    /\ UNCHANGED <<dev, bufs, sink, binding, stopOp, pay, shut, m_appCoordinateSystem, crashed, m_startPreviewOp, startEvent, startArgs, startSets>>

\* Lines 535-594: controller optimisation, stream properties, encoding profile,
\* the new sink.  SetMediaStreamPropertiesAsync may throw.
StartConfigure(ok) ==
    /\ ~crashed
    /\ UNCHANGED <<hostPc, calls, deliveries, hist>>
    /\ startPc = "configure"
    /\ out' = NoOut
    /\ IF ok
       THEN startPc' = "effects" /\ UNCHANGED startStatus
       ELSE StartThrow
    /\ UNCHANGED <<dev, bufs, session, effects, sink, binding, stopOp, pay, shut, cs,
                   m_appCoordinateSystem, crashed, m_startPreviewOp, startEvent,
                   startArgs, startSets>>

\* The effects step without the try/catch of lines 823-848: an attach that throws
\* leaves the start coroutine.
StartEffects_NoCatch(identical, failAt) ==
    /\ ~crashed
    /\ UNCHANGED <<hostPc, calls, deliveries, openSessions, audioAllocs, lastAlloc, sinceReset>>
    /\ startPc = "effects"
    /\ out' = NoOut
    /\ IF startArgs.enableMrc
       THEN LET r == AddMrcEffects(startArgs.enableAudio, identical, failAt) IN
            /\ m_mrcAudioEffect' = r.audio
            /\ m_mrcPreviewEffect' = r.preview
            /\ m_mrcVideoEffect' = r.video
            /\ mrcFailed' = AddThrows(startArgs.enableAudio, identical, failAt)
            /\ IF AddThrows(startArgs.enableAudio, identical, failAt)
               THEN StartThrow
               ELSE startPc' = "stream" /\ UNCHANGED startStatus
       ELSE /\ startPc' = "stream"
            /\ UNCHANGED <<effects, mrcFailed, startStatus>>
    /\ UNCHANGED <<dev, bufs, session, sink, binding, stopOp, pay, shut, cs,
                   m_appCoordinateSystem, crashed, m_startPreviewOp, startEvent,
                   startArgs, startSets>>

\* Lines 596-600: the mixed-reality effects, when requested.
StartEffects(identical, failAt) ==
    /\ ~crashed
    /\ UNCHANGED <<hostPc, calls, deliveries, openSessions, audioAllocs, lastAlloc, sinceReset>>
    /\ startPc = "effects"
    /\ out' = NoOut
    /\ startPc' = "stream"
    /\ IF startArgs.enableMrc
       THEN LET r == AddMrcEffects(startArgs.enableAudio, identical, failAt) IN
            /\ m_mrcAudioEffect' = r.audio
            /\ m_mrcPreviewEffect' = r.preview
            /\ m_mrcVideoEffect' = r.video
            /\ mrcFailed' = AddThrows(startArgs.enableAudio, identical, failAt)
       ELSE UNCHANGED <<effects, mrcFailed>>
    /\ UNCHANGED <<dev, bufs, session, sink, binding, stopOp, pay, shut, cs,
                   m_appCoordinateSystem, crashed, m_startPreviewOp, startEvent,
                   startArgs, startStatus, startSets>>

StreamOutcomes == {"ok", "startThrows", "frameThrows"}

\* Lines 602-611 (m_streamType is VideoPreview, line 51): start the preview to the
\* new sink, then probe one preview frame.  Either call may throw.
StartStream(outcome) ==
    /\ ~crashed
    /\ UNCHANGED <<hostPc, calls, deliveries, hist>>
    /\ startPc = "stream"
    /\ out' = NoOut
    /\ streaming' = (streaming \/ outcome # "startThrows")
    /\ IF outcome = "ok"
       THEN startPc' = "store" /\ UNCHANGED startStatus
       ELSE StartThrow
    /\ UNCHANGED <<dev, bufs, m_mediaCapture, m_initSettings, effects, sink, binding, stopOp,
                   pay, shut, cs, m_appCoordinateSystem, crashed,
                   m_startPreviewOp, startEvent, startArgs, startSets>>

\* Lines 613-621: store the sink, bind the payload handler already set, signal
\* start-complete.
StartStore ==
    /\ ~crashed
    /\ UNCHANGED <<hostPc, calls, deliveries, hist>>
    /\ startPc = "store"
    /\ out' = NoOut
    /\ m_mediaSink' = TRUE
    /\ sinkHandler' = m_payloadHandler
    /\ startEvent' = TRUE
    /\ startSets' = startSets + 1
    /\ startPc' = "resume"
    /\ UNCHANGED <<dev, bufs, session, effects, binding, stopOp, pay, shut, cs,
                   m_appCoordinateSystem, crashed, m_startPreviewOp, startArgs,
                   startStatus>>

\* Lines 623-629: go back to the calling context unless the engine is shut down;
\* the coroutine ends and the action becomes AsyncStatus::Completed.  On either
\* context the Completed handler then needs m_cs.
StartResume ==
    /\ ~crashed
    /\ UNCHANGED <<hostPc, calls, deliveries, hist>>
    /\ startPc = "resume"
    /\ out' = NoOut
    /\ startStatus' = "Completed"
    /\ startPc' = "ended"
    /\ UNCHANGED <<dev, bufs, session, effects, sink, binding, stopOp, pay, shut, cs,
                   m_appCoordinateSystem, crashed, m_startPreviewOp, startEvent,
                   startArgs, startSets>>

\* The Completed handler with the handle cleared only after the notification.
StartCompletedClear_KeepHandle ==
    /\ ~crashed
    /\ UNCHANGED <<hostPc, calls, deliveries, hist>>
    /\ startPc = "ended"
    /\ cs = "free"
    /\ out' = NoOut
    /\ cs' = "startDone"
    /\ startPc' = "notify"
    /\ startArgs' = NoArgs
    /\ startSets' = 0
    /\ UNCHANGED <<dev, bufs, session, effects, sink, binding, stopOp, pay, shut,
                   m_appCoordinateSystem, crashed, startEvent, startStatus, m_startPreviewOp>>

\* Completed handler of the start action, lines 126-132: take m_cs, clear the handle.
StartCompletedClear ==
    /\ ~crashed
    /\ UNCHANGED <<hostPc, calls, deliveries, hist>>
    /\ startPc = "ended"
    /\ cs = "free"
    /\ out' = NoOut
    /\ cs' = "startDone"
    /\ m_startPreviewOp' = FALSE
    /\ startPc' = "notify"
    /\ startArgs' = NoArgs
    /\ startSets' = 0
    /\ UNCHANGED <<dev, bufs, session, effects, sink, binding, stopOp, pay, shut,
                   m_appCoordinateSystem, crashed, startEvent, startStatus>>

\* The Completed handler with the `else` of line 138 missing: a failed start
\* raises the failure and then preview-started.
StartCompletedNotify_Both ==
    /\ ~crashed
    /\ UNCHANGED <<calls, deliveries, openSessions, audioAllocs, lastAlloc, sinceReset>>
    /\ mrcFailed' = FALSE
    /\ startPc = "notify"
    /\ out' = IF startStatus = "Error"
              THEN [Failed EXCEPT !.raised = Failed.raised \o Callback(CaptureNote("PreviewStarted")).raised,
                                  !.delivered = Failed.delivered \o Callback(CaptureNote("PreviewStarted")).delivered]
              ELSE Callback(CaptureNote("PreviewStarted"))
    /\ cs' = "free"
    /\ startPc' = "idle"
    /\ startStatus' = "none"
    /\ UNCHANGED <<dev, bufs, session, effects, sink, binding, stopOp, pay, shut,
                   m_appCoordinateSystem, crashed, m_startPreviewOp, startEvent,
                   startArgs, startSets>>
    /\ hostPc' = HostNotified(out')

\* Completed handler of the start action, lines 134-151: raise the terminal
\* notification, then leave m_cs.
StartCompletedNotify ==
    /\ ~crashed
    /\ UNCHANGED <<calls, deliveries, openSessions, audioAllocs, lastAlloc, sinceReset>>
    /\ mrcFailed' = FALSE
    /\ startPc = "notify"
    /\ out' = IF startStatus = "Error"
              THEN Failed
              ELSE IF startStatus = "Completed"
                   THEN Callback(CaptureNote("PreviewStarted"))
                   ELSE NoOut
    /\ cs' = "free"
    /\ startPc' = "idle"
    /\ startStatus' = "none"
    /\ UNCHANGED <<dev, bufs, session, effects, sink, binding, stopOp, pay, shut,
                   m_appCoordinateSystem, crashed, m_startPreviewOp, startEvent,
                   startArgs, startSets>>
    /\ hostPc' = HostNotified(out')

----------------------------------------------------------------------------
\* The payload handler binding.

\* Removing a registration: the event drops the delegate the token names, and
\* ignores a token that names no delegate of that event on that handler.
Revoke(S, handler, event, token) ==
    IF token = <<handler, event>> THEN S \ {<<handler, event>>} ELSE S

\* The registrations left by ResetPayloadHandler, lines 887-899.  The stream-payload
\* registration is revoked with m_payloadEventToken and the stream-sample one with
\* m_streamSampleEventToken.
ResetSubs ==
    IF m_payloadHandler = NoHandler
    THEN subs
    ELSE LET h == m_payloadHandler
             s1 == Revoke(subs, h, "profile", tokens.profile)
             s2 == Revoke(s1, h, "payload", tokens.payload)
             s3 == Revoke(s2, h, "sample", tokens.sample)
             s4 == Revoke(s3, h, "metadata", tokens.metadata)
         IN Revoke(s4, h, "description", tokens.description)

\* The tokens after the five registrations of lines 280-362: the token of the
\* stream-payload registration is stored in m_streamSampleEventToken (line 362),
\* m_payloadEventToken is never assigned.
SubscribeTokens(h) ==
    [profile |-> <<h, "profile">>, description |-> <<h, "description">>,
     metadata |-> <<h, "metadata">>, sample |-> <<h, "payload">>,
     payload |-> tokens.payload]

\* PayloadHandler setter, lines 267-491, called by the caller with a handler.
SetPayloadHandler(value) ==
    /\ CallerFree
    /\ calls' = calls + 1
    /\ UNCHANGED <<hostPc, deliveries, openSessions, audioAllocs, lastAlloc, mrcFailed>>
    /\ sinceReset' = "set"
    /\ out' = [NoOut EXCEPT !.call = "PayloadHandler"]
    /\ m_payloadHandler' = value
    /\ sinkHandler' = IF m_mediaSink THEN value ELSE sinkHandler
    /\ subs' = ResetSubs \cup {<<value, e>> : e \in EventKinds}
    /\ tokens' = SubscribeTokens(value)
    /\ UNCHANGED <<dev, bufs, session, effects, m_mediaSink, startOp, stopOp, pay,
                   shut, cs, m_appCoordinateSystem, crashed>>

\* AppCoordinateSystem setter, lines 506-511.
SetAppCoordinateSystem(value) ==
    /\ CallerFree
    /\ calls' = calls + 1
    /\ UNCHANGED <<hostPc, deliveries, hist>>
    /\ out' = [NoOut EXCEPT !.call = "AppCoordinateSystem"]
    /\ m_appCoordinateSystem' = value
    /\ UNCHANGED <<dev, bufs, session, effects, sink, binding, startOp, stopOp, pay,
                   shut, cs, crashed>>

----------------------------------------------------------------------------
\* StopPreviewCoroutine, lines 631-669, on its background thread; it takes no lock.

StopThrow ==
    /\ stopStatus' = "Error"
    /\ stopPc' = "ended"

\* Line 637: ResetPayloadHandler.
StopReset ==
    /\ ~crashed
    /\ UNCHANGED <<hostPc, calls, deliveries, openSessions, audioAllocs, lastAlloc, mrcFailed>>
    /\ sinceReset' = IF sinceReset = "ended" THEN "ended" ELSE "reset"
    /\ stopPc = "bg"
    /\ out' = NoOut
    /\ subs' = ResetSubs
    /\ m_payloadHandler' = NoHandler
    /\ stopPc' = "sink"
    /\ UNCHANGED <<dev, bufs, session, effects, sink, tokens, startOp, pay, shut, cs,
                   m_appCoordinateSystem, crashed, m_stopPreviewOp, stopEvent,
                   stopStatus, stopSets>>

\* The sink step with line 642 missing: the sink is unbound but kept.
StopSink_KeepSink ==
    /\ ~crashed
    /\ UNCHANGED <<hostPc, calls, deliveries, hist>>
    /\ stopPc = "sink"
    /\ out' = NoOut
    /\ sinkHandler' = IF m_mediaSink THEN NoHandler ELSE sinkHandler
    /\ stopPc' = "stream"
    /\ UNCHANGED <<dev, bufs, session, effects, binding, startOp, pay, shut, cs,
                   m_appCoordinateSystem, crashed, m_stopPreviewOp, stopEvent,
                   stopStatus, stopSets, m_mediaSink>>

\* Lines 639-643: unbind and drop the sink.
StopSink ==
    /\ ~crashed
    /\ UNCHANGED <<hostPc, calls, deliveries, hist>>
    /\ stopPc = "sink"
    /\ out' = NoOut
    /\ sinkHandler' = IF m_mediaSink THEN NoHandler ELSE sinkHandler
    /\ m_mediaSink' = FALSE
    /\ stopPc' = "stream"
    /\ UNCHANGED <<dev, bufs, session, effects, binding, startOp, pay, shut, cs,
                   m_appCoordinateSystem, crashed, m_stopPreviewOp, stopEvent,
                   stopStatus, stopSets>>

\* The stream step with ReleaseMediaCaptureAsync (line 658) moved inside the
\* Streaming test: a session that is not streaming is left open.
StopStream_ReleaseIfStreaming(ok) ==
    /\ ~crashed
    /\ UNCHANGED <<hostPc, calls, deliveries, hist>>
    /\ stopPc = "stream"
    /\ out' = NoOut
    /\ IF ~m_mediaCapture \/ ~streaming
       THEN stopPc' = "signal" /\ UNCHANGED <<streaming, stopStatus>>
       ELSE IF ok
            THEN stopPc' = "release" /\ streaming' = FALSE /\ UNCHANGED stopStatus
            ELSE StopThrow /\ UNCHANGED streaming
    /\ UNCHANGED <<dev, bufs, m_mediaCapture, m_initSettings, effects, sink, binding, startOp,
                   pay, shut, cs, m_appCoordinateSystem, crashed,
                   m_stopPreviewOp, stopEvent, stopSets>>

\* Lines 645-657: with a session that reports Streaming, StopPreviewAsync (it may
\* throw); without a session, straight to line 661.
StopStream(ok) ==
    /\ ~crashed
    /\ UNCHANGED <<hostPc, calls, deliveries, hist>>
    /\ stopPc = "stream"
    /\ out' = NoOut
    /\ IF ~m_mediaCapture
       THEN stopPc' = "signal" /\ UNCHANGED <<streaming, stopStatus>>
       ELSE IF ~streaming
            THEN stopPc' = "release" /\ UNCHANGED <<streaming, stopStatus>>
            ELSE IF ok
                 THEN stopPc' = "release" /\ streaming' = FALSE /\ UNCHANGED stopStatus
                 ELSE StopThrow /\ UNCHANGED streaming
    /\ UNCHANGED <<dev, bufs, m_mediaCapture, m_initSettings, effects, sink, binding, startOp,
                   pay, shut, cs, m_appCoordinateSystem, crashed,
                   m_stopPreviewOp, stopEvent, stopSets>>

\* Line 658, ReleaseMediaCaptureAsync (lines 791-810): remove the effects, clear
\* the device manager association, close the session.
StopRelease(failAt) ==
    /\ ~crashed
    /\ UNCHANGED <<hostPc, calls, deliveries, audioAllocs, lastAlloc, mrcFailed, sinceReset>>
    /\ stopPc = "release"
    /\ out' = NoOut
    /\ LET r == RemoveMrcEffects(failAt) IN
       /\ m_mrcAudioEffect' = r.audio
       /\ m_mrcPreviewEffect' = r.preview
       /\ m_mrcVideoEffect' = r.video
       /\ IF r.ok
          THEN /\ m_initSettings' = FALSE
               /\ m_mediaCapture' = FALSE
               /\ openSessions' = IF m_mediaCapture THEN openSessions - 1 ELSE openSessions
               /\ streaming' = FALSE
               /\ stopPc' = "signal"
               /\ UNCHANGED stopStatus
          ELSE StopThrow /\ UNCHANGED <<session, openSessions>>
    /\ UNCHANGED <<dev, bufs, sink, binding, startOp, pay, shut, cs, m_appCoordinateSystem, crashed, m_stopPreviewOp, stopEvent,
                   stopSets>>

\* Line 661: signal stop-complete.
StopSignal ==
    /\ ~crashed
    /\ UNCHANGED <<hostPc, calls, deliveries, hist>>
    /\ stopPc = "signal"
    /\ out' = NoOut
    /\ stopEvent' = TRUE
    /\ stopSets' = stopSets + 1
    /\ stopPc' = "resume"
    /\ UNCHANGED <<dev, bufs, session, effects, sink, binding, startOp, pay, shut, cs,
                   m_appCoordinateSystem, crashed, m_stopPreviewOp, stopStatus>>

\* Lines 663-669: back to the calling context unless shut down; the action
\* becomes AsyncStatus::Completed.
StopResume ==
    /\ ~crashed
    /\ UNCHANGED <<hostPc, calls, deliveries, hist>>
    /\ stopPc = "resume"
    /\ out' = NoOut
    /\ stopStatus' = "Completed"
    /\ stopPc' = "ended"
    /\ UNCHANGED <<dev, bufs, session, effects, sink, binding, startOp, pay, shut, cs,
                   m_appCoordinateSystem, crashed, m_stopPreviewOp, stopEvent, stopSets>>

\* Completed handler of the stop action, lines 168-174: take m_cs, clear the handle.
StopCompletedClear ==
    /\ ~crashed
    /\ UNCHANGED <<hostPc, calls, deliveries, hist>>
    /\ stopPc = "ended"
    /\ cs = "free"
    /\ out' = NoOut
    /\ cs' = "stopDone"
    /\ m_stopPreviewOp' = FALSE
    /\ stopPc' = "notify"
    /\ stopSets' = 0
    /\ UNCHANGED <<dev, bufs, session, effects, sink, binding, startOp, pay, shut,
                   m_appCoordinateSystem, crashed, stopEvent, stopStatus>>

\* Completed handler of the stop action, lines 176-193: raise the terminal
\* notification, then leave m_cs.
StopCompletedNotify ==
    /\ ~crashed
    /\ UNCHANGED <<calls, deliveries, openSessions, audioAllocs, lastAlloc, mrcFailed>>
    /\ sinceReset' = IF sinceReset = "set" THEN "set" ELSE "ended"
    /\ stopPc = "notify"
    /\ out' = IF stopStatus = "Error"
              THEN Failed
              ELSE IF stopStatus = "Completed"
                   THEN Callback(CaptureNote("PreviewStopped"))
                   ELSE NoOut
    /\ cs' = "free"
    /\ stopPc' = "idle"
    /\ stopStatus' = "none"
    /\ UNCHANGED <<dev, bufs, session, effects, sink, binding, startOp, pay, shut,
                   m_appCoordinateSystem, crashed, m_stopPreviewOp, stopEvent, stopSets>>
    /\ hostPc' = HostNotified(out')

----------------------------------------------------------------------------
\* Shutdown, lines 75-110, on the caller thread.  The guard of line 77 holds m_cs
\* until the function returns, the waits included.

\* Shutdown with the test of lines 79-82 dropped: a second call runs the whole
\* function again.
ShutdownBegin_NoFlagTest ==
    /\ CallerFree
    /\ calls' = calls + 1
    /\ UNCHANGED <<hostPc, deliveries, hist>>
    /\ m_isShutdown' = TRUE
    /\ shutSawSession' = m_mediaCapture
    /\ cs' = "caller"
    /\ callerPc' = IF m_startPreviewOp /\ startStatus = "Started"
                   THEN "waitStart" ELSE "stop"
    /\ UNCHANGED moduleShutdown
    /\ out' = [NoOut EXCEPT !.call = "Shutdown"]
    /\ UNCHANGED <<dev, bufs, session, effects, sink, binding, startOp, stopOp, pay,
                   m_appCoordinateSystem, crashed>>

\* Lines 77-86: take m_cs; a second call returns at once; otherwise set the
\* flag and look at the start action.
ShutdownBegin ==
    /\ CallerFree
    /\ calls' = calls + 1
    /\ UNCHANGED <<hostPc, deliveries, hist>>
    /\ IF m_isShutdown
       THEN UNCHANGED <<shut, cs>>
       ELSE /\ m_isShutdown' = TRUE
            /\ shutSawSession' = m_mediaCapture
            /\ cs' = "caller"
            /\ callerPc' = IF m_startPreviewOp /\ startStatus = "Started"
                           THEN "waitStart" ELSE "stop"
            /\ UNCHANGED moduleShutdown
    /\ out' = [NoOut EXCEPT !.call = "Shutdown"]
    /\ UNCHANGED <<dev, bufs, session, effects, sink, binding, startOp, stopOp, pay,
                   m_appCoordinateSystem, crashed>>

\* Lines 88-91: block until the start event is signalled.
ShutdownWaitStart ==
    /\ ~crashed
    /\ UNCHANGED <<hostPc, calls, deliveries, hist>>
    /\ callerPc = "waitStart"
    /\ startEvent
    /\ out' = NoOut
    /\ callerPc' = "stop"
    /\ UNCHANGED <<dev, bufs, session, effects, sink, binding, startOp, stopOp, pay,
                   m_isShutdown, moduleShutdown, shutSawSession, cs, m_appCoordinateSystem, crashed>>

\* Lines 94-97: with a session open, call StopPreview (m_cs is re-entered).
ShutdownStop ==
    /\ ~crashed
    /\ UNCHANGED <<hostPc, calls, deliveries, hist>>
    /\ callerPc = "stop"
    /\ callerPc' = "checkStop"
    /\ IF m_mediaCapture
       THEN DoStopPreview
       ELSE UNCHANGED stopOp /\ out' = NoOut
    /\ UNCHANGED <<dev, bufs, session, effects, sink, binding, startOp, pay,
                   m_isShutdown, moduleShutdown, shutSawSession, cs,
                   m_appCoordinateSystem, crashed>>

\* Line 99: look at the stop action.
ShutdownCheckStop ==
    /\ ~crashed
    /\ UNCHANGED <<hostPc, calls, deliveries, hist>>
    /\ callerPc = "checkStop"
    /\ out' = NoOut
    /\ callerPc' = IF m_stopPreviewOp /\ stopStatus = "Started" THEN "waitStop" ELSE "release"
    /\ UNCHANGED <<dev, bufs, session, effects, sink, binding, startOp, stopOp, pay,
                   m_isShutdown, moduleShutdown, shutSawSession, cs, m_appCoordinateSystem, crashed>>

\* Lines 101-104: block until the stop event is signalled.
ShutdownWaitStop ==
    /\ ~crashed
    /\ UNCHANGED <<hostPc, calls, deliveries, hist>>
    /\ callerPc = "waitStop"
    /\ stopEvent
    /\ out' = NoOut
    /\ callerPc' = "release"
    /\ UNCHANGED <<dev, bufs, session, effects, sink, binding, startOp, stopOp, pay,
                   m_isShutdown, moduleShutdown, shutSawSession, cs, m_appCoordinateSystem, crashed>>

\* Line 107: release the device resources and the two buffers.
ShutdownRelease ==
    /\ ~crashed
    /\ UNCHANGED <<hostPc, calls, deliveries, hist>>
    /\ callerPc = "release"
    /\ ReleaseDeviceResources
    /\ out' = NoOut
    /\ callerPc' = "module"
    /\ UNCHANGED <<session, effects, sink, binding, startOp, stopOp, pay, cs,
                   m_isShutdown, moduleShutdown, shutSawSession, m_appCoordinateSystem,
                   crashed>>

\* The end of Shutdown without the call of Module::Shutdown of line 109.
ShutdownModule_KeepModule ==
    /\ ~crashed
    /\ UNCHANGED <<hostPc, calls, deliveries, hist>>
    /\ callerPc = "module"
    /\ out' = NoOut
    /\ cs' = "free"
    /\ callerPc' = "idle"
    /\ UNCHANGED <<dev, bufs, session, effects, sink, binding, startOp, stopOp, pay,
                   moduleShutdown, m_isShutdown, shutSawSession, m_appCoordinateSystem,
                   crashed>>

\* Lines 109-110: Module::Shutdown, then the guard leaves m_cs and Shutdown
\* returns.
ShutdownModule ==
    /\ ~crashed
    /\ UNCHANGED <<hostPc, calls, deliveries, hist>>
    /\ callerPc = "module"
    /\ ModuleShutdown
    /\ out' = NoOut
    /\ cs' = "free"
    /\ callerPc' = "idle"
    /\ UNCHANGED <<dev, bufs, session, effects, sink, binding, startOp, stopOp, pay,
                   m_isShutdown, shutSawSession, m_appCoordinateSystem, crashed>>

----------------------------------------------------------------------------
\* The stream-payload lambda, lines 362-490, on the capture thread.  The lambda
\* takes no lock, so Shutdown and the stop coroutine run between its steps.

PayloadKinds == {"audio", "video", "empty", "other"}

Pay(result) == [NoOut EXCEPT !.pay = result]

VideoNote(texture, transform) ==
    [kind |-> "PreviewVideoFrame", width |-> texture[1], height |-> texture[2],
     transform |-> transform]

\* The entry checks with the sender test of lines 371-374 missing.
PayloadIgnored_NoSenderTest(sender, kind) ==
    m_isShutdown \/ kind \in {"empty", "other"}

\* Lines 366-397: the delivery is dropped when the engine is shut down, the
\* sender is not the bound handler, the payload is empty or it is no stream
\* sample of a known major type.
PayloadIgnored(sender, kind) ==
    m_isShutdown \/ sender # m_payloadHandler \/ kind \in {"empty", "other"}

\* A live sink bound to `sender` pushes a payload and the handler raises
\* stream-payload on the engine's registration.  Only a video payload's size is
\* read.
PayloadBegin(sender, kind, width, height) ==
    /\ ~crashed
    /\ deliveries < MaxDeliveries
    /\ deliveries' = deliveries + 1
    /\ UNCHANGED <<hostPc, calls, hist>>
    /\ payPc = "idle"
    /\ streaming
    /\ sinkHandler = sender
    /\ <<sender, "payload">> \in subs
    /\ kind # "video" => (width = 1 /\ height = 1)
    /\ IF PayloadIgnored(sender, kind)
       THEN /\ out' = Pay("ignored")
            /\ UNCHANGED <<payPc, payload>>
       ELSE /\ payPc' = "alloc"
            /\ payload' = [sender |-> sender, kind |-> kind, width |-> width,
                           height |-> height, changed |-> FALSE]
            /\ out' = NoOut
    /\ UNCHANGED <<dev, bufs, session, effects, sink, binding, startOp, stopOp,
                   shut, cs, m_appCoordinateSystem, crashed>>

\* The texture test of lines 438-444.
TextureMismatch(width, height) ==
    \/ m_sharedVideoTexture = NoTexture
    \/ m_sharedVideoTexture # <<width, height>>

AllocOutcomes == {"ok", "deviceFails", "createFails"}

\* Lines 401-415 (audio): allocate the audio sample when there is none.
\* Lines 434-455 (video): on a mismatch, and with the Unity device alive (lines
\* 446-447), ensure the device resources and create the texture with the
\* payload's size.
PayloadAlloc(outcome) ==
    /\ ~crashed
    /\ UNCHANGED <<hostPc, calls, deliveries, openSessions, mrcFailed, sinceReset>>
    /\ payPc = "alloc"
    /\ IF payload.kind = "audio"
       THEN /\ UNCHANGED <<dev, m_sharedVideoTexture, lastAlloc>>
            /\ IF m_audioSample
               THEN /\ payPc' = "finish"
                    /\ out' = NoOut
                    /\ UNCHANGED <<m_audioSample, audioAllocs, payload>>
               ELSE IF outcome = "ok"
                    THEN /\ m_audioSample' = TRUE
                         /\ audioAllocs' = audioAllocs + 1
                         /\ payPc' = "finish"
                         /\ out' = NoOut
                         /\ UNCHANGED payload
                    ELSE /\ payPc' = "idle"
                         /\ payload' = NoPayload
                         /\ out' = Pay("failed")
                         /\ UNCHANGED <<m_audioSample, audioAllocs>>
       ELSE /\ UNCHANGED <<m_audioSample, audioAllocs>>
            /\ IF ~TextureMismatch(payload.width, payload.height)
               THEN /\ payPc' = "finish"
                    /\ out' = NoOut
                    /\ UNCHANGED <<dev, m_sharedVideoTexture, lastAlloc, payload>>
               ELSE LET r == IF UnityDeviceAlive
                             THEN CreateDeviceResources(outcome # "deviceFails")
                             ELSE [hr |-> "E_FAIL", device |-> m_mediaDevice,
                                   manager |-> m_dxgiDeviceManager]
                    IN
                    /\ m_mediaDevice' = r.device
                    /\ m_dxgiDeviceManager' = r.manager
                    /\ IF r.hr = "S_OK" /\ outcome = "ok"
                       THEN /\ m_sharedVideoTexture' = <<payload.width, payload.height>>
                            /\ lastAlloc' = <<payload.width, payload.height>>
                            /\ payload' = [payload EXCEPT !.changed = TRUE]
                            /\ payPc' = "finish"
                            /\ out' = NoOut
                       ELSE /\ payPc' = "idle"
                            /\ payload' = NoPayload
                            /\ out' = Pay("failed")
                            /\ UNCHANGED <<m_sharedVideoTexture, lastAlloc>>
    /\ UNCHANGED <<session, effects, sink, binding, startOp, stopOp,
                   shut, cs, m_appCoordinateSystem, crashed>>

\* The last step raising video-frame-ready once for the new texture and once
\* more for the new transforms.
PayloadFinish_NotePerChange(copyOk, transformOk) ==
    /\ ~crashed
    /\ UNCHANGED <<hostPc, calls, deliveries, hist>>
    /\ payPc = "finish"
    /\ payPc' = "idle"
    /\ payload' = NoPayload
    /\ IF payload.kind = "audio"
       THEN IF ~m_audioSample
            THEN /\ crashed' = ~copyOk
                 /\ out' = Pay("failed")
            ELSE /\ UNCHANGED crashed
                 /\ out' = IF copyOk
                           THEN [Callback(CaptureNote("PreviewAudioFrame")) EXCEPT !.pay = "audio"]
                           ELSE Pay("failed")
       ELSE IF m_sharedVideoTexture = NoTexture
            THEN /\ crashed' = TRUE
                 /\ out' = Pay("failed")
            ELSE /\ UNCHANGED crashed
                 /\ out' = IF ~copyOk
                           THEN Pay("failed")
                           ELSE LET transform == m_appCoordinateSystem /\ transformOk
                                    first == Callback(VideoNote(m_sharedVideoTexture, FALSE))
                                    second == Callback(VideoNote(m_sharedVideoTexture, TRUE))
                                IN
                                IF payload.changed /\ transform
                                THEN [first EXCEPT !.raised = first.raised \o second.raised,
                                                   !.delivered = first.delivered \o second.delivered,
                                                   !.pay = "videoNotified"]
                                ELSE IF payload.changed \/ transform
                                     THEN [Callback(VideoNote(m_sharedVideoTexture, transform))
                                             EXCEPT !.pay = "videoNotified"]
                                     ELSE Pay("videoSilent")
    /\ UNCHANGED <<dev, bufs, session, effects, sink, binding, startOp, stopOp,
                   shut, cs, m_appCoordinateSystem>>

\* The last step with a failed UpdateTransforms treated like a failed copy: the
\* delivery returns without raising anything.
PayloadFinish_TransformAborts(copyOk, transformOk) ==
    /\ ~crashed
    /\ UNCHANGED <<hostPc, calls, deliveries, hist>>
    /\ payPc = "finish"
    /\ payPc' = "idle"
    /\ payload' = NoPayload
    /\ IF payload.kind = "audio"
       THEN IF ~m_audioSample
            THEN /\ crashed' = ~copyOk
                 /\ out' = Pay("failed")
            ELSE /\ UNCHANGED crashed
                 /\ out' = IF copyOk
                           THEN [Callback(CaptureNote("PreviewAudioFrame")) EXCEPT !.pay = "audio"]
                           ELSE Pay("failed")
       ELSE IF m_sharedVideoTexture = NoTexture
            THEN /\ crashed' = TRUE
                 /\ out' = Pay("failed")
            ELSE /\ UNCHANGED crashed
                 /\ out' = IF ~copyOk \/ (m_appCoordinateSystem /\ ~transformOk)
                           THEN Pay("failed")
                           ELSE LET transform == m_appCoordinateSystem /\ transformOk IN
                                IF payload.changed \/ transform
                                THEN [Callback(VideoNote(m_sharedVideoTexture, transform))
                                        EXCEPT !.pay = "videoNotified"]
                                ELSE Pay("videoSilent")
    /\ UNCHANGED <<dev, bufs, session, effects, sink, binding, startOp, stopOp,
                   shut, cs, m_appCoordinateSystem>>

\* Lines 417-430 (audio): copy the sample, raise audio-frame-ready.
\* Lines 457-488 (video): copy the sample, update the transforms when a coordinate
\* system is set, raise video-frame-ready when the texture or the transforms
\* changed.  The video path dereferences m_sharedVideoTexture: with the texture
\* released in the meantime the process dies.  The audio path hands the released
\* (null) sample to CopySample, which fails or dies.
PayloadFinish(copyOk, transformOk) ==
    /\ ~crashed
    /\ UNCHANGED <<hostPc, calls, deliveries, hist>>
    /\ payPc = "finish"
    /\ payPc' = "idle"
    /\ payload' = NoPayload
    /\ IF payload.kind = "audio"
       THEN IF ~m_audioSample
            THEN /\ crashed' = ~copyOk
                 /\ out' = Pay("failed")
            ELSE /\ UNCHANGED crashed
                 /\ out' = IF copyOk
                           THEN [Callback(CaptureNote("PreviewAudioFrame")) EXCEPT !.pay = "audio"]
                           ELSE Pay("failed")
       ELSE IF m_sharedVideoTexture = NoTexture
            THEN /\ crashed' = TRUE
                 /\ out' = Pay("failed")
            ELSE /\ UNCHANGED crashed
                 /\ out' = IF ~copyOk
                           THEN Pay("failed")
                           ELSE LET transform == m_appCoordinateSystem /\ transformOk IN
                                IF payload.changed \/ transform
                                THEN [Callback(VideoNote(m_sharedVideoTexture, transform))
                                        EXCEPT !.pay = "videoNotified"]
                                ELSE Pay("videoSilent")
    /\ UNCHANGED <<dev, bufs, session, effects, sink, binding, startOp, stopOp,
                   shut, cs, m_appCoordinateSystem>>

----------------------------------------------------------------------------

----------------------------------------------------------------------------
\* The host wrapper's StopPreview (wrapper lines 220-226) and StopPreviewAsync
\* (lines 259-290), on the caller thread.  One StopPreview loop at a time.

\* BasePlugin.CheckHR: hands the hresult back.
CheckHR(hr) == hr

\* StopPreviewAsync after the native call with the rejected call reported as
\* success: StopPreview does not call itself again.
AfterNativeStop_GiveUp(hr) ==
    IF hr = "S_OK" THEN "await" ELSE "idle"

\* Lines 264-289 up to the first suspension: an accepted stop creates the
\* completion source and awaits it; a rejected one yields (line 282) and returns
\* CheckHR(hr) == 0, which is false, so that StopPreview calls itself again
\* (line 224).
AfterNativeStop(hr) ==
    IF hr = "S_OK"
    THEN "await"
    ELSE IF CheckHR(hr) = "S_OK" THEN "idle" ELSE "retry"

\* The host calls StopPreview(): Native.StopPreview (line 263) is the engine's
\* StopPreview.
HostStopPreview ==
    /\ CallerFree
    /\ hostPc = "idle"
    /\ calls' = calls + 1
    /\ UNCHANGED <<deliveries, hist>>
    /\ DoStopPreview
    /\ hostPc' = AfterNativeStop(out'.hr)
    /\ UNCHANGED <<dev, bufs, session, effects, sink, binding, startOp, pay, shut, cs,
                   m_appCoordinateSystem, crashed>>

\* Line 224: StopPreview calls itself after StopPreviewAsync returned false.
HostRetry ==
    /\ ~crashed
    /\ callerPc = "idle"
    /\ cs = "free"
    /\ hostPc = "retry"
    /\ UNCHANGED <<calls, deliveries, hist>>
    /\ DoStopPreview
    /\ hostPc' = AfterNativeStop(out'.hr)
    /\ UNCHANGED <<dev, bufs, session, effects, sink, binding, startOp, pay, shut, cs,
                   m_appCoordinateSystem, crashed>>

Next ==
    \/ \E enableAudio \in BOOLEAN, enableMrc \in BOOLEAN, ok \in BOOLEAN :
          StartPreview(enableAudio, enableMrc, ok)
    \/ StopPreview
    \/ HostStopPreview
    \/ HostRetry
    \/ \E value \in Handlers : SetPayloadHandler(value)
    \/ \E value \in BOOLEAN : SetAppCoordinateSystem(value)
    \/ StartEnter
    \/ \E ok \in BOOLEAN, failAt \in FailPoints : StartSession(ok, failAt)
    \/ \E ok \in BOOLEAN : StartConfigure(ok)
    \/ \E identical \in BOOLEAN, failAt \in FailPoints : StartEffects(identical, failAt)
    \/ \E outcome \in StreamOutcomes : StartStream(outcome)
    \/ StartStore
    \/ StartResume
    \/ StartCompletedClear
    \/ StartCompletedNotify
    \/ StopReset
    \/ StopSink
    \/ \E ok \in BOOLEAN : StopStream(ok)
    \/ \E failAt \in FailPoints : StopRelease(failAt)
    \/ StopSignal
    \/ StopResume
    \/ StopCompletedClear
    \/ StopCompletedNotify
    \/ ShutdownBegin
    \/ ShutdownWaitStart
    \/ ShutdownStop
    \/ ShutdownCheckStop
    \/ ShutdownWaitStop
    \/ ShutdownRelease
    \/ ShutdownModule
    \/ \E sender \in Handlers, kind \in PayloadKinds, width \in Dims, height \in Dims :
          PayloadBegin(sender, kind, width, height)
    \/ \E outcome \in AllocOutcomes : PayloadAlloc(outcome)
    \/ \E copyOk \in BOOLEAN, transformOk \in BOOLEAN : PayloadFinish(copyOk, transformOk)

Spec == Init /\ [][Next]_vars

\* The background threads and the caller thread inside Shutdown keep running:
\* every step of a coroutine, of a Completed handler and of Shutdown that can be
\* taken is eventually taken, and so is the call the host wrapper's StopPreview
\* makes again after a failed StopPreviewAsync.  Nothing obliges the caller to
\* make a call or the capture thread to deliver a payload.
Fairness ==
    /\ WF_vars(StartEnter)
    /\ WF_vars(\E ok \in BOOLEAN, failAt \in FailPoints : StartSession(ok, failAt))
    /\ WF_vars(\E ok \in BOOLEAN : StartConfigure(ok))
    /\ WF_vars(\E identical \in BOOLEAN, failAt \in FailPoints : StartEffects(identical, failAt))
    /\ WF_vars(\E outcome \in StreamOutcomes : StartStream(outcome))
    /\ WF_vars(StartStore)
    /\ WF_vars(StartResume)
    /\ WF_vars(StartCompletedClear)
    /\ WF_vars(StartCompletedNotify)
    /\ WF_vars(StopReset)
    /\ WF_vars(StopSink)
    /\ WF_vars(\E ok \in BOOLEAN : StopStream(ok))
    /\ WF_vars(\E failAt \in FailPoints : StopRelease(failAt))
    /\ WF_vars(StopSignal)
    /\ WF_vars(StopResume)
    /\ WF_vars(StopCompletedClear)
    /\ WF_vars(StopCompletedNotify)
    /\ WF_vars(ShutdownWaitStart)
    /\ WF_vars(ShutdownStop)
    /\ WF_vars(ShutdownCheckStop)
    /\ WF_vars(ShutdownWaitStop)
    /\ WF_vars(ShutdownRelease)
    /\ WF_vars(ShutdownModule)
    /\ WF_vars(HostRetry)

FairSpec == Init /\ [][Next]_vars /\ Fairness

----------------------------------------------------------------------------
\* Properties.

TerminalKinds == {"PreviewStarted", "PreviewStopped", "Failed"}

\* The step raises a terminal notification of a start or stop operation.
RaisesTerminal == \E i \in DOMAIN out'.raised : out'.raised[i].kind \in TerminalKinds

\* A start or stop sequence has not reached its end.
SequenceRunning ==
    \/ startPc \in {"bg", "locked", "configure", "effects", "stream", "store"}
    \/ stopPc \in {"bg", "sink", "stream", "release", "signal"}

\* The step is a StartPreview or StopPreview call of the caller.
CallerStartStop ==
    \/ \E enableAudio \in BOOLEAN, enableMrc \in BOOLEAN, ok \in BOOLEAN :
          StartPreview(enableAudio, enableMrc, ok)
    \/ StopPreview
    \/ HostStopPreview
    \/ HostRetry

\* The step is a StartPreview or StopPreview call, the one Shutdown makes included.
StartStopCall == CallerStartStop \/ (m_mediaCapture /\ ShutdownStop)

\* C1: in every reachable state at most one of the start operation handle and
\* the stop operation handle is set.
C1_AtMostOneOperation == ~(m_startPreviewOp /\ m_stopPreviewOp)

\* A stop is outstanding after an earlier start has finished and opened a session.
C1_Witness == m_stopPreviewOp /\ ~m_startPreviewOp /\ m_mediaCapture /\ stopPc = "bg"

\* C2: a StartPreview or StopPreview call made while a start or a stop handle is
\* set returns E_ABORT, raises nothing and changes no engine state: handles,
\* events, session, sink, payload handler binding, device resources, buffers,
\* and no coroutine is launched.
C2_BusyCallChangesNothing ==
    [][((m_startPreviewOp \/ m_stopPreviewOp) /\ StartStopCall)
        => /\ out'.hr = "E_ABORT"
           /\ out'.raised = <<>>
           /\ UNCHANGED <<dev, bufs, session, effects, sink, binding, startOp, stopOp,
                          m_isShutdown, moduleShutdown, cs, m_appCoordinateSystem, pay>>]_vars

\* A call has just been rejected as busy while a start was outstanding.
C2_Witness == out.hr = "E_ABORT" /\ m_startPreviewOp /\ startPc = "configure"

\* C3: the Completed handler of a finished start (stop) sequence leaves the
\* handle cleared and raises exactly one notification, preview-started
\* (preview-stopped) after success and the failure after an error; terminal
\* notifications are raised by no other step; a finished sequence goes through
\* its handler once.
C3_OneTerminalNotification ==
    [][/\ (startPc = "notify" /\ startPc' # "notify")
          => /\ ~m_startPreviewOp'
             /\ out'.raised = <<CaptureNote(IF startStatus = "Completed"
                                            THEN "PreviewStarted" ELSE "Failed")>>
       /\ (stopPc = "notify" /\ stopPc' # "notify")
          => /\ ~m_stopPreviewOp'
             /\ out'.raised = <<CaptureNote(IF stopStatus = "Completed"
                                            THEN "PreviewStopped" ELSE "Failed")>>
       /\ RaisesTerminal
          => \/ startPc = "notify" /\ startPc' = "idle"
             \/ stopPc = "notify" /\ stopPc' = "idle"
       /\ (startPc = "ended" /\ startPc' # "ended") => startPc' = "notify"
       /\ (startPc = "notify" /\ startPc' # "notify") => startPc' = "idle"
       /\ (stopPc = "ended" /\ stopPc' # "ended") => stopPc' = "notify"
       /\ (stopPc = "notify" /\ stopPc' # "notify") => stopPc' = "idle"]_vars

\* The handler of a failed start has just raised the failure notification.
C3_Witness ==
    /\ out.raised = <<CaptureNote("Failed")>>
    /\ startPc = "idle"
    /\ stopPc = "idle"
    /\ ~m_startPreviewOp
    /\ m_mediaCapture

\* C4: when a terminal notification is raised, both operation handles are
\* already absent before the raising step and m_cs is held by the Completed
\* handler; the handler holds m_cs from the step that clears the handle on; and
\* after the raising step neither handle is set, so that the next call is not
\* busy.
C4_HandleClearedUnderLock ==
    [][/\ RaisesTerminal
          => /\ ~m_startPreviewOp /\ ~m_stopPreviewOp
             /\ cs \in {"startDone", "stopDone"}
             /\ ~m_startPreviewOp' /\ ~m_stopPreviewOp'
       /\ (m_startPreviewOp /\ ~m_startPreviewOp') => cs' = "startDone"
       /\ (m_stopPreviewOp /\ ~m_stopPreviewOp') => cs' = "stopDone"
       /\ (cs = "startDone" /\ cs' # "startDone") => (RaisesTerminal /\ cs' = "free")
       /\ (cs = "stopDone" /\ cs' # "stopDone") => (RaisesTerminal /\ cs' = "free")]_vars

\* preview-started has just been raised and delivered with no handle set.
C4_Witness ==
    /\ out.delivered = <<CaptureNote("PreviewStarted")>>
    /\ ~m_startPreviewOp
    /\ ~m_stopPreviewOp
    /\ cs = "free"

\* C5 (as claimed): once the shutdown flag is set, a StartPreview or StopPreview
\* call of the caller is not accepted: it sets no handle, launches no coroutine,
\* resets no event and creates no device resources.
C5_NoCallAcceptedAfterShutdown ==
    [][(m_isShutdown /\ CallerStartStop)
        => /\ out'.hr # "S_OK"
           /\ UNCHANGED <<m_startPreviewOp, m_stopPreviewOp, startPc, stopPc,
                          startEvent, stopEvent, dev>>]_vars

\* C6 (as claimed): when Shutdown was called with a session open, at its return
\* the session and the sink are absent and no start or stop sequence is running.
C6_SessionClosedAtReturn ==
    [][(callerPc = "module" /\ callerPc' = "idle" /\ shutSawSession)
        => /\ ~m_mediaCapture'
           /\ ~m_mediaSink'
           /\ ~SequenceRunning']_vars

\* C7 (as claimed): with the background threads scheduled fairly, every
\* Shutdown that has taken the lock returns (unless the process dies first).
C7_ShutdownReturns == (callerPc # "idle") ~> (callerPc = "idle" \/ crashed)

\* C8 (as claimed): when a start (stop) sequence has ended, with success or with
\* an error, its event has been set exactly once since the launch.
C8_EventSetOnce ==
    /\ startPc = "ended" => startSets = 1
    /\ stopPc = "ended" => stopSets = 1

C10_ResourcesStayReleased ==
    ShutdownReturned
        => /\ ~m_mediaDevice
           /\ ~m_dxgiDeviceManager
           /\ ~m_audioSample
           /\ m_sharedVideoTexture = NoTexture

\* C11: a Shutdown call made when the shutdown flag is already set changes no
\* engine state: it waits on no event (the caller is outside Shutdown again at
\* once), launches no stop sequence, releases nothing and raises no notification.
C11_ShutdownIdempotent ==
    [][(m_isShutdown /\ ShutdownBegin)
        => /\ UNCHANGED <<dev, bufs, session, effects, sink, binding, startOp, stopOp,
                          pay, shut, cs, m_appCoordinateSystem, crashed, hist>>
           /\ out'.raised = <<>>
           /\ out'.hr = "none"]_vars

\* A second Shutdown call has just returned after the first one had finished.
C11_Witness ==
    /\ out.call = "Shutdown"
    /\ callerPc = "idle"
    /\ m_isShutdown
    /\ moduleShutdown
    /\ cs = "free"

\* C12: the session step of a start sequence (lines 522-533) initialises exactly
\* one session when the engine holds none, and none when it holds one: it then
\* keeps that session and, when the step succeeds, has removed its three
\* effects.  At most one session is open at any time, and it is the one the
\* engine holds.
C12_OneSession ==
    [][/\ openSessions <= 1
       /\ openSessions' <= 1
       /\ (openSessions' = 1) <=> m_mediaCapture'
       /\ (startPc = "locked" /\ startPc' # "locked")
          => IF m_mediaCapture
             THEN /\ openSessions' = openSessions
                  /\ m_mediaCapture'
                  /\ startPc' = "configure"
                     => ~m_mrcAudioEffect' /\ ~m_mrcPreviewEffect' /\ ~m_mrcVideoEffect'
             ELSE IF startPc' = "configure"
                  THEN openSessions' = 1 /\ m_mediaCapture'
                  ELSE openSessions' = 0 /\ ~m_mediaCapture']_vars

\* A second start sequence has gone through its session step with the session
\* of the first one still streaming: that session is reused.
C12_Witness ==
    /\ startPc = "configure"
    /\ streaming
    /\ m_mediaCapture
    /\ openSessions = 1

\* C13: when preview-stopped is raised the session, its settings, the sink and
\* the three effect handles are absent; an accepted StartPreview leaves the GPU
\* device and the device manager present; and the two are taken away by no step
\* other than Shutdown's release (line 107).  So after a start that produced
\* preview-started and a stop that produced preview-stopped the device
\* resources are still there, until Shutdown.
C13_RoundTrip ==
    [][/\ (stopPc = "notify" /\ stopPc' = "idle" /\ stopStatus = "Completed")
          => /\ out'.raised = <<CaptureNote("PreviewStopped")>>
             /\ ~m_mediaCapture'
             /\ ~m_initSettings'
             /\ ~m_mediaSink'
             /\ ~m_mrcAudioEffect' /\ ~m_mrcPreviewEffect' /\ ~m_mrcVideoEffect'
       /\ (~m_startPreviewOp /\ m_startPreviewOp')
          => m_mediaDevice' /\ m_dxgiDeviceManager'
       /\ ((m_mediaDevice /\ ~m_mediaDevice') \/ (m_dxgiDeviceManager /\ ~m_dxgiDeviceManager'))
          => callerPc = "release"]_vars

\* The caller bound a handler, started a preview that streamed a payload (so the
\* start ran to its end and preview-started was raised), and stopped it:
\* preview-stopped has just been raised, the session is gone, the device
\* resources are present.
C13_Witness ==
    /\ out.raised = <<CaptureNote("PreviewStopped")>>
    /\ out.delivered = <<CaptureNote("PreviewStopped")>>
    /\ deliveries >= 1
    /\ ~m_isShutdown
    /\ ~m_mediaCapture
    /\ ~m_mediaSink
    /\ m_mediaDevice
    /\ m_dxgiDeviceManager

\* C14 (as claimed): while a stream-payload delivery is between its entry checks
\* and its end, i.e. about to read or write the audio sample, the shared texture
\* or the device resources, no step of Shutdown releases them and no step of
\* the stop sequence clears the payload handler.
C14_RouterExcluded ==
    [][(payPc \in {"alloc", "finish"})
        => /\ ~(callerPc = "release" /\ callerPc' = "module")
           /\ ~(stopPc = "bg" /\ stopPc' = "sink")]_vars

\* C15 (as claimed): the engine's lambdas are registered on the five events of
\* the bound payload handler and on nothing else (none at all when no handler is
\* bound), and the engine holds, for each of the five, the token of that
\* registration.
C15_FiveSubscriptions ==
    IF m_payloadHandler = NoHandler
    THEN subs = {}
    ELSE /\ subs = {<<m_payloadHandler, e>> : e \in EventKinds}
         /\ \A e \in EventKinds : tokens[e] = <<m_payloadHandler, e>>

\* A step of a video delivery creates the shared texture (line 452).
TextureAllocated ==
    /\ payPc = "alloc"
    /\ payload.kind = "video"
    /\ payload'.changed

\* C16 (as claimed): a video delivery creates the shared texture only when there
\* is none or its size differs from the payload's; nothing else gives the engine
\* a texture; and a delivery never creates a texture of the size of the texture
\* created last, so that consecutive video payloads of one size cause one
\* allocation.
C16_AllocOnlyOnMismatch ==
    [][/\ TextureAllocated
          => /\ TextureMismatch(payload.width, payload.height)
             /\ m_sharedVideoTexture' = <<payload.width, payload.height>>
             /\ <<payload.width, payload.height>> # lastAlloc
       /\ (m_sharedVideoTexture' # m_sharedVideoTexture /\ m_sharedVideoTexture' # NoTexture)
          => TextureAllocated]_vars

\* The step raises video-frame-ready.
RaisesVideoFrame ==
    \E i \in DOMAIN out'.raised : out'.raised[i].kind = "PreviewVideoFrame"

\* C17 (as claimed): the last step of a video delivery raises video-frame-ready
\* if and only if the delivery created the texture or its transform update
\* succeeded (the update is made only when the sample was copied and a
\* coordinate system is set); no other step raises video-frame-ready.
C17_VideoFrameIffChanged ==
    [][/\ \A copyOk \in BOOLEAN, transformOk \in BOOLEAN :
            (PayloadFinish(copyOk, transformOk) /\ payload.kind = "video")
                => (RaisesVideoFrame
                      <=> \/ payload.changed
                          \/ /\ copyOk
                             /\ m_sharedVideoTexture # NoTexture
                             /\ m_appCoordinateSystem
                             /\ transformOk)
       /\ RaisesVideoFrame => (payPc = "finish" /\ payload.kind = "video")]_vars

\* C18: in the last step of a video delivery whose sample was copied, a failed
\* transform update raises no failure notification, does not end the delivery
\* as failed and does not stop the process; and when the delivery has created
\* the texture, video-frame-ready is raised all the same, without transforms.
C18_TransformFailureAbsorbed ==
    [][\A copyOk \in BOOLEAN, transformOk \in BOOLEAN :
          (/\ PayloadFinish(copyOk, transformOk)
           /\ payload.kind = "video"
           /\ copyOk
           /\ m_sharedVideoTexture # NoTexture)
              => /\ \A i \in DOMAIN out'.raised : out'.raised[i].kind # "Failed"
                 /\ out'.pay \in {"videoNotified", "videoSilent"}
                 /\ ~crashed'
                 /\ (payload.changed /\ m_appCoordinateSystem /\ ~transformOk)
                    => /\ out'.raised = <<VideoNote(m_sharedVideoTexture, FALSE)>>
                       /\ out'.pay = "videoNotified"]_vars

\* With a coordinate system set, video-frame-ready has just been raised without
\* transforms: the delivery created the texture and its transform update failed.
C18_Witness ==
    /\ out.pay = "videoNotified"
    /\ out.raised = <<VideoNote(m_sharedVideoTexture, FALSE)>>
    /\ m_appCoordinateSystem
    /\ ~crashed

\* C19 (as claimed): over all the audio deliveries of a run one audio sample
\* buffer is created (line 414), and the buffer the engine holds is that one.
C19_OneAudioBuffer ==
    /\ audioAllocs <= 1
    /\ m_audioSample => audioAllocs = 1

\* C20: a stream-payload event raised while the engine is shut down, or by a
\* sender that is not the bound payload handler, or with an empty payload, ends
\* at the entry checks: the delivery goes no further, no buffer or texture is
\* created or written, no device resources are created and nothing is raised.
C20_PayloadIgnored ==
    [][\A sender \in Handlers, kind \in PayloadKinds, width \in Dims, height \in Dims :
          (/\ PayloadBegin(sender, kind, width, height)
           /\ (m_isShutdown \/ sender # m_payloadHandler \/ kind = "empty"))
              => /\ out'.pay = "ignored"
                 /\ out'.raised = <<>>
                 /\ UNCHANGED <<dev, bufs, pay, hist>>]_vars

\* A payload pushed by the handler the sink is still bound to has just been
\* ignored because the engine's handler binding is no longer that handler.
C20_Witness ==
    /\ out.pay = "ignored"
    /\ ~m_isShutdown
    /\ streaming
    /\ sinkHandler \in Handlers
    /\ sinkHandler # m_payloadHandler

C22_AllRemovalsAttempted ==
    [][\A failAt \in FailPoints :
          (/\ m_mediaCapture
           /\ (StopRelease(failAt) \/ \E ok \in BOOLEAN : StartSession(ok, failAt)))
              => /\ (failAt # "audio" => ~m_mrcAudioEffect')
                 /\ (failAt # "preview" => ~m_mrcPreviewEffect')
                 /\ (failAt # "video" => ~m_mrcVideoEffect')]_vars

\* C23: an effect attach that throws during a start sequence is absorbed: the
\* sequence goes on to start the stream with its action still running and
\* nothing raised; from there, once the stream has started, the sequence runs
\* to its end, and its terminal notification is preview-started, not the
\* failure notification.
C23_AttachFailureAbsorbed ==
    [][/\ \A identical \in BOOLEAN, failAt \in FailPoints :
             (/\ StartEffects(identical, failAt)
              /\ startArgs.enableMrc
              /\ AddThrows(startArgs.enableAudio, identical, failAt))
                 => /\ startPc' = "stream"
                    /\ startStatus' = "Started"
                    /\ out'.raised = <<>>
       /\ (mrcFailed /\ startPc \in {"store", "resume"}) => startStatus = "Started"
       /\ (mrcFailed /\ StartStream("ok")) => (startPc' = "store" /\ streaming')
       /\ (mrcFailed /\ startPc = "resume" /\ startPc' = "ended")
             => startStatus' = "Completed"
       /\ (mrcFailed /\ startPc = "notify" /\ startPc' = "idle" /\ startStatus = "Completed")
             => out'.raised = <<CaptureNote("PreviewStarted")>>]_vars

\* A start sequence whose video effect attach threw has started the stream and
\* finished, and its Completed handler is about to raise preview-started.
C23_Witness ==
    /\ mrcFailed
    /\ startPc = "notify"
    /\ startStatus = "Completed"
    /\ streaming
    /\ m_mediaSink
    /\ ~m_mrcVideoEffect

\* C24: in a video delivery the texture is created (line 452) in a step before
\* the one that updates the transforms (line 476), never after it; and a
\* delivery that created the texture and whose transform update succeeded
\* raises one video-frame-ready, with the size of the texture just created,
\* which is the payload's, and with the new transforms.
C24_ReallocBeforeTransform ==
    [][/\ TextureAllocated => (payPc = "alloc" /\ payPc' = "finish" /\ out'.raised = <<>>)
       /\ \A copyOk \in BOOLEAN, transformOk \in BOOLEAN :
             (/\ PayloadFinish(copyOk, transformOk)
              /\ payload.kind = "video"
              /\ payload.changed
              /\ m_sharedVideoTexture # NoTexture
              /\ copyOk
              /\ m_appCoordinateSystem
              /\ transformOk)
                 => /\ lastAlloc = <<payload.width, payload.height>>
                    /\ m_sharedVideoTexture = lastAlloc
                    /\ UNCHANGED m_sharedVideoTexture
                    /\ out'.raised = <<VideoNote(<<payload.width, payload.height>>, TRUE)>>]_vars

\* The first delivery of the run has raised video-frame-ready with transforms:
\* no texture existed before it, so it created the texture as well.
C24_Witness ==
    /\ deliveries = 1
    /\ out.pay = "videoNotified"
    /\ m_sharedVideoTexture # NoTexture
    /\ out.raised = <<VideoNote(m_sharedVideoTexture, TRUE)>>
    /\ lastAlloc = m_sharedVideoTexture

RaisesFrame ==
    \E i \in DOMAIN out'.raised :
        out'.raised[i].kind \in {"PreviewAudioFrame", "PreviewVideoFrame"}

\* C26 (as claimed): the stop sequence clears the payload handler, and from the
\* end of a stop sequence until the caller sets a payload handler again the
\* engine's handler stays cleared, a sink stored by a later start sequence is
\* bound to no handler, and no audio-frame-ready or video-frame-ready is raised.
C26_NoFramesAfterStop ==
    [][/\ (stopPc = "bg" /\ stopPc' # stopPc) => m_payloadHandler' = NoHandler
       /\ (sinceReset = "ended")
             => /\ m_payloadHandler = NoHandler
                /\ (startPc = "store" /\ startPc' # startPc) => sinkHandler' = NoHandler
                /\ ~RaisesFrame]_vars

\* C27 (as claimed): a StartPreview that is not busy and fails in
\* CreateDeviceResources launches no start sequence and leaves the engine as it
\* was: both operation handles absent, nothing raised, the device resources
\* untouched and the start-complete event signalled if it was signalled before
\* the call.
C27_FailedStartLeavesEvent ==
    [][(out'.hr = "E_FAIL")
          => /\ ~m_startPreviewOp' /\ ~m_stopPreviewOp'
             /\ UNCHANGED <<startPc, startStatus, dev>>
             /\ out'.raised = <<>>
             /\ startEvent => startEvent']_vars

\* The step delivers a notification of the given kind to the observer.
Delivers(kind) ==
    \E i \in DOMAIN out'.delivered : out'.delivered[i].kind = kind

====
